---------------------------- MODULE Spec2Model ----------------------------
(***************************************************************************)
(* Model of src/app.py: the passport-renewal calculator (safe_add_years,   *)
(* current_passport_stage, compute_status, validate_inputs) and the       *)
(* compliance-request composer (sort_by_priority, render_middle_adaptive, *)
(* the "Generate text" handler).                                          *)
(*                                                                         *)
(* A date is the tuple <<year, month, day>> of datetime.date; None is the  *)
(* empty tuple.  A text is a sequence of tokens: "\n" for a line break and *)
(* one token per literal paragraph of the text tables.                     *)
(***************************************************************************)
EXTENDS Integers, Sequences, FiniteSets, TLC

VARIABLES
    birth, issue, today,        \* arguments of the passport functions
    MAX_BIRTH, MAX_ISSUE,       \* module globals, date.today() at import
    errors, stage, res,         \* results of validate_inputs, current_passport_stage, compute_status
    called,                     \* the passport functions applied so far
    d, years, result,           \* safe_add_years: arguments and result
    language, selected_parts,   \* compliance form: radio and the request lists
    middle_text, text           \* compliance form: rendered middle and full text

vars == <<birth, issue, today, MAX_BIRTH, MAX_ISSUE, errors, stage, res, called,
          d, years, result, language, selected_parts, middle_text, text>>

passport_vars == <<birth, issue, today, MAX_BIRTH, MAX_ISSUE, errors, stage, res, called>>
years_vars == <<d, years, result>>
compose_vars == <<language, selected_parts, middle_text, text>>

None == <<>>

-----------------------------------------------------------------------------
(* datetime.date and timedelta, as the source uses them *)

IsLeap(y) == y % 4 = 0 /\ (y % 100 # 0 \/ y % 400 = 0)

DaysInMonth(y, m) ==
    IF m = 2 THEN (IF IsLeap(y) THEN 29 ELSE 28)
    ELSE IF m \in {4, 6, 9, 11} THEN 30 ELSE 31

RECURSIVE DaysBeforeMonth(_, _)
DaysBeforeMonth(y, m) ==
    IF m = 1 THEN 0 ELSE DaysBeforeMonth(y, m - 1) + DaysInMonth(y, m - 1)

DaysBeforeYear(y) ==
    LET p == y - 1 IN p * 365 + (p \div 4) - (p \div 100) + (p \div 400)

\* date.toordinal(): 0001-01-01 is day 1
toordinal(dt) == DaysBeforeYear(dt[1]) + DaysBeforeMonth(dt[1], dt[2]) + dt[3]

\* date.fromordinal(), by the 400/100/4/1-year cycles of the proleptic calendar
fromordinal(n) ==
    LET n0   == n - 1
        n400 == n0 \div 146097
        r400 == n0 % 146097
        n100 == r400 \div 36524
        r100 == r400 % 36524
        n4   == r100 \div 1461
        r4   == r100 % 1461
        n1   == r4 \div 365
        r1   == r4 % 365
        year == n400 * 400 + 1 + n100 * 100 + n4 * 4 + n1
        leapyear == n1 = 3 /\ (n4 # 24 \/ n100 = 3)
        guess == (r1 + 50) \div 32
        before(m) == DaysBeforeMonth(IF leapyear THEN 2000 ELSE 2001, m)
        month == IF before(guess) > r1 THEN guess - 1 ELSE guess
    IN  IF n1 = 4 \/ n100 = 4
        THEN <<year - 1, 12, 31>>
        ELSE <<year, month, r1 - before(month) + 1>>

\* date + timedelta(days=n)
AddDays(dt, n) == fromordinal(toordinal(dt) + n)

\* date comparison: by (year, month, day)
DateLT(a, b) ==
    \/ a[1] < b[1]
    \/ a[1] = b[1] /\ a[2] < b[2]
    \/ a[1] = b[1] /\ a[2] = b[2] /\ a[3] < b[3]

DateLE(a, b) == a = b \/ DateLT(a, b)

\* the dates date() accepts
IsDate(dt) ==
    /\ Len(dt) = 3
    /\ dt[2] \in 1..12
    /\ dt[3] \in 1..DaysInMonth(dt[1], dt[2])

\* d.replace(year=y) raises ValueError exactly when the day does not exist in year y
ReplaceYearRaises(dt, y) == ~IsDate(<<y, dt[2], dt[3]>>)

-----------------------------------------------------------------------------
(* 1) PASSPORT TOOL *)

MIN_BIRTH == <<1900, 1, 1>>
MIN_ISSUE == <<1900, 1, 1>>

\* a slip: the except branch rolls over to March 1
safe_add_years_Mar1(dt, n) ==
    IF ReplaceYearRaises(dt, dt[1] + n)
    THEN <<dt[1] + n, 3, 1>>
    ELSE <<dt[1] + n, dt[2], dt[3]>>

safe_add_years(dt, n) ==
    IF ReplaceYearRaises(dt, dt[1] + n)
    THEN <<dt[1] + n, 2, 28>>
    ELSE <<dt[1] + n, dt[2], dt[3]>>


StageNone == 0
Stage14 == 14
Stage20 == 20
Stage45 == 45
GraceDays == 90
DaysNone == -1

\* a slip: the 20-year window is closed on the right and open on the left
current_passport_stage_Shifted(b, i) ==
    LET d14 == safe_add_years(b, Stage14)
        d20 == safe_add_years(b, Stage20)
        d45 == safe_add_years(b, Stage45)
    IN  IF DateLE(d45, i) THEN Stage45
        ELSE IF DateLT(d20, i) /\ DateLT(i, d45) THEN Stage20
        ELSE IF DateLE(d14, i) /\ DateLE(i, d20) THEN Stage14
        ELSE StageNone

current_passport_stage(b, i) ==
    LET d14 == safe_add_years(b, Stage14)
        d20 == safe_add_years(b, Stage20)
        d45 == safe_add_years(b, Stage45)
    IN  IF DateLE(d45, i) THEN Stage45
        ELSE IF DateLE(d20, i) /\ DateLT(i, d45) THEN Stage20
        ELSE IF DateLE(d14, i) /\ DateLT(i, d20) THEN Stage14
        ELSE StageNone

LABEL_14 == "Pervichnoe poluchenie v 14 let"
LABEL_20 == "Obmen v 20 let"
LABEL_45 == "Obmen v 45 let"
LABEL_UNKNOWN == "Ne udalos odnoznachno opredelit (proverte vvod)"

classify_passport_stage_text(s) ==
    IF s = Stage14 THEN LABEL_14
    ELSE IF s = Stage20 THEN LABEL_20
    ELSE IF s = Stage45 THEN LABEL_45
    ELSE LABEL_UNKNOWN

StatusReport(label, nc, dl, kind, left) ==
    [stage_label |-> label, next_change |-> nc, deadline |-> dl,
     status_kind |-> kind, days_left |-> left]

\* a slip: the deadline day itself already counts as missed
ClassifyDeadline_Strict(label, next_change, t) ==
    LET deadline == AddDays(next_change, GraceDays)
    IN  IF DateLE(deadline, t)
        THEN StatusReport(label, next_change, deadline, "invalid", DaysNone)
        ELSE IF DateLE(next_change, t)
        THEN StatusReport(label, next_change, deadline, "due",
                          toordinal(deadline) - toordinal(t))
        ELSE StatusReport(label, next_change, deadline, "ok",
                          toordinal(next_change) - toordinal(t))

\* a slip: the ninety days are counted from the day after the birthday
ClassifyDeadline_From_Next_Day(label, next_change, t) ==
    LET deadline == AddDays(next_change, GraceDays + 1)
    IN  IF DateLT(deadline, t)
        THEN StatusReport(label, next_change, deadline, "invalid", DaysNone)
        ELSE IF DateLE(next_change, t)
        THEN StatusReport(label, next_change, deadline, "due",
                          toordinal(deadline) - toordinal(t))
        ELSE StatusReport(label, next_change, deadline, "ok",
                          toordinal(next_change) - toordinal(t))

\* lines 106-124: the classification of today against next_change and the deadline
ClassifyDeadline(label, next_change, t) ==
    LET deadline == AddDays(next_change, GraceDays)
    IN  IF DateLT(deadline, t)
        THEN StatusReport(label, next_change, deadline, "invalid", DaysNone)
        ELSE IF DateLE(next_change, t)
        THEN StatusReport(label, next_change, deadline, "due",
                          toordinal(deadline) - toordinal(t))
        ELSE StatusReport(label, next_change, deadline, "ok",
                          toordinal(next_change) - toordinal(t))

NoMoreReport(label) == StatusReport(label, None, None, "no_more", DaysNone)

\* lines 73-78: the next age threshold by today's age
age_next_change(b, t) ==
    LET d20 == safe_add_years(b, Stage20)
        d45 == safe_add_years(b, Stage45)
    IN  IF DateLT(t, d20) THEN d20
        ELSE IF DateLT(t, d45) THEN d45
        ELSE None

\* a slip: the stage is taken from today's age, not from the issue date
compute_status_StageFromToday(b, i, t) ==
    LET d20 == safe_add_years(b, Stage20)
        d45 == safe_add_years(b, Stage45)
        st == current_passport_stage(b, t)
        stage_label == classify_passport_stage_text(st)
        next_change == IF st = Stage20 THEN d45
                       ELSE IF st = Stage14 THEN d20
                       ELSE age_next_change(b, t)
    IN  IF st = Stage45 THEN NoMoreReport(stage_label)
        ELSE IF next_change = None THEN NoMoreReport(stage_label)
        ELSE ClassifyDeadline(stage_label, next_change, t)

\* a slip: the age-based threshold is used whatever the stage
compute_status_AgeOnly(b, i, t) ==
    LET st == current_passport_stage(b, i)
        stage_label == classify_passport_stage_text(st)
        next_change == age_next_change(b, t)
    IN  IF st = Stage45 THEN NoMoreReport(stage_label)
        ELSE IF next_change = None THEN NoMoreReport(stage_label)
        ELSE ClassifyDeadline(stage_label, next_change, t)

compute_status(b, i, t) ==
    LET d20 == safe_add_years(b, Stage20)
        d45 == safe_add_years(b, Stage45)
        st == current_passport_stage(b, i)
        stage_label == classify_passport_stage_text(st)
        next_change == IF st = Stage20 THEN d45
                       ELSE IF st = Stage14 THEN d20
                       ELSE age_next_change(b, t)
    IN  IF st = Stage45 THEN NoMoreReport(stage_label)
        ELSE IF next_change = None THEN NoMoreReport(stage_label)
        ELSE ClassifyDeadline(stage_label, next_change, t)

-----------------------------------------------------------------------------
(* dateutil.relativedelta(dt1, dt2).years, as validate_inputs uses it *)

Abs(n) == IF n < 0 THEN -n ELSE n
Sign(n) == IF n < 0 THEN -1 ELSE 1

\* relativedelta._set_months: whole years are carried out of the months
rd_years(months) == IF Abs(months) > 11 THEN Sign(months) * (Abs(months) \div 12) ELSE 0
rd_months(months) == IF Abs(months) > 11 THEN Sign(months) * (Abs(months) % 12) ELSE months

\* dt + relativedelta(years, months): the day is clamped to the month's last day
rd_add(dt, months) ==
    LET m0 == dt[2] + rd_months(months)
        y0 == dt[1] + rd_years(months)
        year == IF m0 > 12 THEN y0 + 1 ELSE IF m0 < 1 THEN y0 - 1 ELSE y0
        month == IF m0 > 12 THEN m0 - 12 ELSE IF m0 < 1 THEN m0 + 12 ELSE m0
        day == IF dt[3] < DaysInMonth(year, month) THEN dt[3] ELSE DaysInMonth(year, month)
    IN  <<year, month, day>>

\* the constructor's loop: step the month count towards dt2 while dt2 + delta overshoots dt1
RECURSIVE rd_settle(_, _, _)
rd_settle(dt1, dt2, months) ==
    LET dtm == rd_add(dt2, months)
    IN  IF DateLT(dt1, dt2)
        THEN (IF DateLT(dtm, dt1) THEN rd_settle(dt1, dt2, months + 1) ELSE months)
        ELSE (IF DateLT(dt1, dtm) THEN rd_settle(dt1, dt2, months - 1) ELSE months)

relativedelta_years(dt1, dt2) ==
    rd_years(rd_settle(dt1, dt2, (dt1[1] - dt2[1]) * 12 + (dt1[2] - dt2[2])))

-----------------------------------------------------------------------------
(* validate_inputs *)

ERR_BIRTH_FUTURE == "Data rozhdeniya ne mozhet byt v budushchem."
ERR_ISSUE_FUTURE == "Data vydachi pasporta ne mozhet byt v budushchem."
ERR_ISSUE_BEFORE_BIRTH == "Data vydachi pasporta ne mozhet byt ranshe daty rozhdeniya."
ERR_UNDER_14 == "Litsu mladshe 14 let pasport eshche ne vydaetsya."
ERR_ISSUE_BEFORE_14 == "Pasport ne mozhet byt vydan ranee dostizheniya 14 let. Proverte datu vydachi."
ERR_BIRTH_RANGE == "Data rozhdeniya dolzhna byt v diapazone MIN_BIRTH-MAX_BIRTH."
ERR_ISSUE_RANGE == "Data vydachi dolzhna byt v diapazone MIN_ISSUE-MAX_ISSUE."

\* errs.append(msg) under its condition
AppendIf(errs, cond, msg) == IF cond THEN Append(errs, msg) ELSE errs

\* a slip: the check of the issue date against the 14th birthday is left out
validate_inputs_No14(b, i, t, max_birth, max_issue) ==
    LET e1 == AppendIf(<<>>, DateLT(t, b), ERR_BIRTH_FUTURE)
        e2 == AppendIf(e1, DateLT(t, i), ERR_ISSUE_FUTURE)
        e3 == AppendIf(e2, DateLT(i, b), ERR_ISSUE_BEFORE_BIRTH)
        e4 == AppendIf(e3, relativedelta_years(t, b) < Stage14, ERR_UNDER_14)
        e6 == AppendIf(e4, ~(DateLE(MIN_BIRTH, b) /\ DateLE(b, max_birth)), ERR_BIRTH_RANGE)
        e7 == AppendIf(e6, ~(DateLE(MIN_ISSUE, i) /\ DateLE(i, max_issue)), ERR_ISSUE_RANGE)
    IN  e7

\* max_birth, max_issue: the module globals MAX_BIRTH, MAX_ISSUE the function reads
validate_inputs(b, i, t, max_birth, max_issue) ==
    LET e1 == AppendIf(<<>>, DateLT(t, b), ERR_BIRTH_FUTURE)
        e2 == AppendIf(e1, DateLT(t, i), ERR_ISSUE_FUTURE)
        e3 == AppendIf(e2, DateLT(i, b), ERR_ISSUE_BEFORE_BIRTH)
        e4 == AppendIf(e3, relativedelta_years(t, b) < Stage14, ERR_UNDER_14)
        d14 == safe_add_years(b, Stage14)
        e5 == AppendIf(e4, DateLT(i, d14), ERR_ISSUE_BEFORE_14)
        e6 == AppendIf(e5, ~(DateLE(MIN_BIRTH, b) /\ DateLE(b, max_birth)), ERR_BIRTH_RANGE)
        e7 == AppendIf(e6, ~(DateLE(MIN_ISSUE, i) /\ DateLE(i, max_issue)), ERR_ISSUE_RANGE)
    IN  e7

-----------------------------------------------------------------------------
(* Idle values of the state a specification does not use *)

NoReport == StatusReport("", None, None, "", DaysNone)

PassportIdle ==
    /\ birth = None /\ issue = None /\ today = None
    /\ MAX_BIRTH = None /\ MAX_ISSUE = None
    /\ errors = <<>> /\ stage = StageNone /\ res = NoReport /\ called = {}

YearsIdle == d = None /\ years = 0 /\ result = None

ComposeIdle ==
    /\ language = "" /\ selected_parts = <<>> /\ middle_text = <<>> /\ text = <<>>

-----------------------------------------------------------------------------
(* Spec: the passport functions applied to bounded inputs *)

MaxOffset == 1

Births ==
    { <<1970, 1, 1>>, <<1990, 1, 1>>, <<1980, 2, 29>>, <<1880, 2, 29>>,
      <<2012, 6, 15>>, <<1899, 12, 31>> }

\* the dates date.today() returned when the module was loaded
ClockDates == { <<2020, 1, 1>>, <<2024, 6, 1>> }

Thresholds(b) ==
    { safe_add_years(b, Stage14), safe_add_years(b, Stage20), safe_add_years(b, Stage45) }

Around(dates, k) == { AddDays(x, o) : x \in dates, o \in (-k)..k }

IssueInputs(b) == Around(Thresholds(b) \cup {b}, MaxOffset)

TodayInputs(b) ==
    Around(Thresholds(b), MaxOffset)
        \cup Around({ AddDays(x, GraceDays) : x \in Thresholds(b) }, MaxOffset)
        \cup ClockDates

Init ==
    /\ birth \in Births
    /\ issue \in IssueInputs(birth)
    /\ today \in TodayInputs(birth)
    /\ MAX_BIRTH \in ClockDates
    /\ MAX_ISSUE \in { MAX_BIRTH, AddDays(MAX_BIRTH, 1) }
    /\ errors = <<>> /\ stage = StageNone /\ res = NoReport /\ called = {}
    /\ YearsIdle /\ ComposeIdle

CallValidateInputs ==
    /\ "validate_inputs" \notin called
    /\ errors' = validate_inputs(birth, issue, today, MAX_BIRTH, MAX_ISSUE)
    /\ called' = called \cup {"validate_inputs"}
    /\ UNCHANGED <<birth, issue, today, MAX_BIRTH, MAX_ISSUE, stage, res>>
    /\ UNCHANGED <<years_vars, compose_vars>>

CallCurrentPassportStage ==
    /\ "current_passport_stage" \notin called
    /\ stage' = current_passport_stage(birth, issue)
    /\ called' = called \cup {"current_passport_stage"}
    /\ UNCHANGED <<birth, issue, today, MAX_BIRTH, MAX_ISSUE, errors, res>>
    /\ UNCHANGED <<years_vars, compose_vars>>

CallComputeStatus ==
    /\ "compute_status" \notin called
    /\ res' = compute_status(birth, issue, today)
    /\ called' = called \cup {"compute_status"}
    /\ UNCHANGED <<birth, issue, today, MAX_BIRTH, MAX_ISSUE, errors, stage>>
    /\ UNCHANGED <<years_vars, compose_vars>>

Next == CallValidateInputs \/ CallCurrentPassportStage \/ CallComputeStatus

Spec == Init /\ [][Next]_vars

Validated == "validate_inputs" \in called /\ errors = <<>>
Computed == "compute_status" \in called
Staged == "current_passport_stage" \in called

\* C1: for inputs validate_inputs accepts, compute_status's report has no
\* next_change and no deadline when the kind is no_more, no days_left when the
\* kind is invalid, and, whenever next_change is present, a deadline that is a
\* date exactly 90 days after next_change.
C1_ReportShape ==
    (Validated /\ Computed) =>
        /\ res.status_kind = "no_more" => (res.next_change = None /\ res.deadline = None)
        /\ res.status_kind = "invalid" => res.days_left = DaysNone
        /\ res.next_change # None =>
              /\ res.deadline # None
              /\ IsDate(res.deadline)
              /\ toordinal(res.deadline) - toordinal(res.next_change) = 90

C1_Witness ==
    /\ Validated /\ Computed
    /\ res.next_change # None
    /\ res.status_kind = "invalid"

\* C2: compute_status returns one of the four kinds for every input, and with
\* next_change present the kind follows today against the two dates: after the
\* deadline invalid without days_left; from next_change to the deadline due
\* with days_left = deadline - today in 0..90; before next_change ok with
\* days_left = next_change - today > 0.
C2_KindByDates ==
    Computed =>
        /\ res.status_kind \in {"invalid", "due", "ok", "no_more"}
        /\ res.next_change # None =>
              LET t  == toordinal(today)
                  nc == toordinal(res.next_change)
                  dl == toordinal(res.deadline)
              IN  /\ t > dl => (res.status_kind = "invalid" /\ res.days_left = DaysNone)
                  /\ (nc <= t /\ t <= dl) =>
                        /\ res.status_kind = "due"
                        /\ res.days_left = dl - t
                        /\ res.days_left \in 0..90
                  /\ t < nc =>
                        /\ res.status_kind = "ok"
                        /\ res.days_left = nc - t
                        /\ res.days_left > 0

C2_Witness ==
    /\ Computed
    /\ res.next_change # None
    /\ today = res.deadline
    /\ res.status_kind = "due"
    /\ res.days_left = 0

\* C3: for inputs validate_inputs accepts, current_passport_stage is 14, 20 or
\* 45, never None, and compute_status never returns the label of an
\* undetermined stage.
C3_StageKnown ==
    Validated =>
        /\ Staged => stage \in {Stage14, Stage20, Stage45}
        /\ Computed => res.stage_label \in {LABEL_14, LABEL_20, LABEL_45}

C3_Witness ==
    /\ Validated /\ Staged /\ Computed
    /\ stage = Stage14
    /\ issue = safe_add_years(birth, Stage14)

\* C4 (as claimed): validate_inputs returns one message for every violated rule
\* of the seven, the upper bound of both range rules being the today argument,
\* and the list is empty exactly when no rule is violated.
C4_Claimed_Messages ==
    (IF DateLT(today, birth) THEN {ERR_BIRTH_FUTURE} ELSE {})
    \cup (IF DateLT(today, issue) THEN {ERR_ISSUE_FUTURE} ELSE {})
    \cup (IF DateLT(issue, birth) THEN {ERR_ISSUE_BEFORE_BIRTH} ELSE {})
    \cup (IF relativedelta_years(today, birth) < 14 THEN {ERR_UNDER_14} ELSE {})
    \cup (IF DateLT(issue, safe_add_years(birth, 14)) THEN {ERR_ISSUE_BEFORE_14} ELSE {})
    \cup (IF DateLT(birth, <<1900, 1, 1>>) \/ DateLT(today, birth) THEN {ERR_BIRTH_RANGE} ELSE {})
    \cup (IF DateLT(issue, <<1900, 1, 1>>) \/ DateLT(today, issue) THEN {ERR_ISSUE_RANGE} ELSE {})

C4_UpperBoundIsTodayArgument ==
    "validate_inputs" \in called =>
        /\ { errors[k] : k \in 1..Len(errors) } = C4_Claimed_Messages
        /\ Len(errors) = Cardinality(C4_Claimed_Messages)

\* C9 (as claimed): birth 1970-01-01, issue 1984-01-01, today 2020-01-01 give
\* stage 14, next_change 1990-01-01, deadline 1990-03-31 and kind invalid.
C9_Deadline_March31 ==
    (Computed /\ birth = <<1970, 1, 1>> /\ issue = <<1984, 1, 1>> /\ today = <<2020, 1, 1>>) =>
        /\ res.stage_label = LABEL_14
        /\ res.next_change = <<1990, 1, 1>>
        /\ res.deadline = <<1990, 3, 31>>
        /\ res.status_kind = "invalid"

\* C9 (amended): birth 1970-01-01, issue 1984-01-01, today 2020-01-01 give
\* stage 14 (from issue, not from today), next_change 1990-01-01, deadline
\* 1990-04-01 (90 days later) and kind invalid because today > deadline.
C9_Deadline_April1 ==
    (Computed /\ birth = <<1970, 1, 1>> /\ issue = <<1984, 1, 1>> /\ today = <<2020, 1, 1>>) =>
        /\ Staged => stage = Stage14
        /\ res.stage_label = LABEL_14
        /\ res.next_change = <<1990, 1, 1>>
        /\ res.deadline = <<1990, 4, 1>>
        /\ res.status_kind = "invalid"
        /\ res.days_left = DaysNone

C9_Witness ==
    /\ Computed /\ Staged
    /\ birth = <<1970, 1, 1>> /\ issue = <<1984, 1, 1>> /\ today = <<2020, 1, 1>>
    /\ res.status_kind = "invalid"

-----------------------------------------------------------------------------
(* SpecStage: the issue date of a fixed person moves forward (a later
   passport is entered) and the stage is determined again *)

InitStage ==
    /\ birth \in Births
    /\ issue \in IssueInputs(birth)
    /\ today = None /\ MAX_BIRTH = None /\ MAX_ISSUE = None
    /\ errors = <<>> /\ stage = StageNone /\ res = NoReport /\ called = {}
    /\ YearsIdle /\ ComposeIdle

LaterIssue ==
    /\ \E i \in IssueInputs(birth) :
          /\ DateLT(issue, i)
          /\ issue' = i
          /\ stage' = current_passport_stage(birth, i)
    /\ called' = {"current_passport_stage"}
    /\ UNCHANGED <<birth, today, MAX_BIRTH, MAX_ISSUE, errors, res>>
    /\ UNCHANGED <<years_vars, compose_vars>>

NextStage == CallCurrentPassportStage \/ LaterIssue

SpecStage == InitStage /\ [][NextStage]_vars

\* C5: for a fixed birth the stage is Unknown for issue < d14, 14 for
\* d14 <= issue < d20, 20 for d20 <= issue < d45 and 45 for issue >= d45, each
\* threshold date belonging to the later stage, and as issue increases the
\* stage never moves back in the order Unknown < 14 < 20 < 45.
C5_StageMonotone ==
    /\ [](Staged =>
            LET i   == toordinal(issue)
                d14 == toordinal(safe_add_years(birth, 14))
                d20 == toordinal(safe_add_years(birth, 20))
                d45 == toordinal(safe_add_years(birth, 45))
            IN  /\ d14 < d20 /\ d20 < d45
                /\ i < d14 => stage = StageNone
                /\ (d14 <= i /\ i < d20) => stage = Stage14
                /\ (d20 <= i /\ i < d45) => stage = Stage20
                /\ d45 <= i => stage = Stage45)
    /\ [][(Staged /\ Staged' /\ birth' = birth /\ toordinal(issue) <= toordinal(issue'))
             => stage <= stage']_vars

C5_Witness ==
    /\ Staged
    /\ issue = safe_add_years(birth, Stage20)
    /\ stage = Stage20
    /\ birth = <<1980, 2, 29>>

-----------------------------------------------------------------------------
(* SpecClock: a fixed person and passport, the calendar advancing one day at
   a time from the day of issue, the status computed again each day *)

MaxDays == 11500

ClockBirths == { <<1970, 1, 1>>, <<1980, 2, 29>> }

ClockIssues(b) ==
    { safe_add_years(b, Stage14),
      AddDays(safe_add_years(b, Stage20), 1),
      safe_add_years(b, Stage45),
      AddDays(safe_add_years(b, Stage14), -1) }

InitClock ==
    /\ birth \in ClockBirths
    /\ issue \in ClockIssues(birth)
    /\ today = issue
    /\ MAX_BIRTH = None /\ MAX_ISSUE = None
    /\ errors = <<>> /\ stage = StageNone /\ res = NoReport /\ called = {}
    /\ YearsIdle /\ ComposeIdle

NextDay ==
    /\ toordinal(today) - toordinal(issue) < MaxDays
    /\ today' = AddDays(today, 1)
    /\ res' = compute_status(birth, issue, today')
    /\ called' = {"compute_status"}
    /\ UNCHANGED <<birth, issue, MAX_BIRTH, MAX_ISSUE, errors, stage>>
    /\ UNCHANGED <<years_vars, compose_vars>>

NextClock == CallComputeStatus \/ NextDay

SpecClock == InitClock /\ [][NextClock]_vars

KindRank(kind) ==
    IF kind = "ok" THEN 1 ELSE IF kind = "due" THEN 2 ELSE IF kind = "invalid" THEN 3 ELSE 0

StageOfIssue == current_passport_stage(birth, issue)

\* C10: for a fixed birth and issue of stage 14 or 20, as today advances the
\* kind only moves forward through ok, due, invalid: ok on every day before
\* next_change, due on exactly the 91 days from next_change to next_change + 90,
\* invalid on every later day, also after a later age threshold has passed.
C10_KindOnlyForward ==
    /\ []((Computed /\ StageOfIssue \in {Stage14, Stage20}) =>
            LET t  == toordinal(today)
                nc == toordinal(safe_add_years(birth, IF StageOfIssue = Stage14 THEN 20 ELSE 45))
            IN  /\ res.next_change # None /\ toordinal(res.next_change) = nc
                /\ t < nc => res.status_kind = "ok"
                /\ (nc <= t /\ t <= nc + 90) => res.status_kind = "due"
                /\ t > nc + 90 => res.status_kind = "invalid")
    /\ [][(Computed /\ Computed' /\ StageOfIssue \in {Stage14, Stage20})
             => KindRank(res.status_kind) <= KindRank(res'.status_kind)]_vars

C10_Witness ==
    /\ Computed
    /\ StageOfIssue = Stage14
    /\ DateLT(safe_add_years(birth, Stage45), today)
    /\ res.status_kind = "invalid"

-----------------------------------------------------------------------------
(* SpecYears: safe_add_years applied to bounded inputs; the dates and the
   target years are those datetime.date represents *)

MaxYearsBack == 4
MaxYearsForward == 45

SampleYears == { 1896, 1900, 1980, 2000, 2023, 2024 }
SampleMonths == { 1, 2, 3, 12 }
SampleDays == { 1, 28, 29, 30, 31 }

SampleDates ==
    { dt \in { <<y, m, dd>> : y \in SampleYears, m \in SampleMonths, dd \in SampleDays } :
        IsDate(dt) }

InitYears ==
    /\ d \in SampleDates
    /\ years \in (-MaxYearsBack)..MaxYearsForward
    /\ result = None
    /\ PassportIdle /\ ComposeIdle

CallSafeAddYears ==
    /\ result = None
    /\ result' = safe_add_years(d, years)
    /\ UNCHANGED <<d, years>>
    /\ UNCHANGED <<passport_vars, compose_vars>>

NextYears == CallSafeAddYears

SpecYears == InitYears /\ [][NextYears]_vars

\* C6: safe_add_years(d, N) of Feb 29 with d.year + N not a leap year is
\* Feb 28 of year d.year + N, without an error; for every other date, and for
\* Feb 29 when d.year + N is a leap year, it is the same month and day in
\* year d.year + N.
C6_LeapSafe ==
    result # None =>
        /\ IsDate(result)
        /\ result[1] = d[1] + years
        /\ IF d[2] = 2 /\ d[3] = 29 /\ ~IsLeap(d[1] + years)
           THEN result[2] = 2 /\ result[3] = 28
           ELSE result[2] = d[2] /\ result[3] = d[3]

C6_Witness ==
    /\ d = <<1896, 2, 29>> /\ years = 4
    /\ result = <<1900, 2, 28>>

-----------------------------------------------------------------------------
(* 2) COMPLIANCE TEMPLATE TOOL *)

NL == <<"\n">>
Tok(r, lang, part) == <<r, lang, part>>

Languages == { "Russian", "English" }

intro_texts(lang) == <<Tok("intro", lang, "1"), NL, NL, Tok("intro", lang, "2")>>

closing_texts(lang) ==
    <<Tok("closing", lang, "1"), NL, NL, Tok("closing", lang, "2"), NL, NL,
      Tok("closing", lang, "3")>>

blocks(r, lang) ==
    [lead  |-> <<Tok(r, lang, "lead")>>,
     add   |-> <<Tok(r, lang, "add")>>,
     final |-> <<Tok(r, lang, "final")>>,
     rest  |-> IF r = "SOF"
               THEN <<NL, NL, Tok(r, lang, "rest.1"), NL, NL, Tok(r, lang, "rest.2")>>
               ELSE <<>>]

PRIORITY == <<"SOF", "ID", "UB">>

Range(seq) == { seq[k] : k \in 1..Len(seq) }

\* str.strip(): leading and trailing whitespace removed
RECURSIVE lstrip(_)
lstrip(t) == IF t # <<>> /\ Head(t) = NL THEN lstrip(Tail(t)) ELSE t

RECURSIVE rstrip(_)
rstrip(t) == IF t # <<>> /\ t[Len(t)] = NL THEN rstrip(SubSeq(t, 1, Len(t) - 1)) ELSE t

strip(t) == rstrip(lstrip(t))

\* sep.join(parts)
RECURSIVE join(_, _)
join(sep, parts) ==
    IF parts = <<>> THEN <<>>
    ELSE IF Len(parts) = 1 THEN parts[1]
    ELSE parts[1] \o sep \o join(sep, Tail(parts))

\* a slip: the request list is filtered instead of the priority list
sort_by_priority_InputOrder(keys) ==
    LET known(k) == k \in Range(PRIORITY) IN SelectSeq(keys, known)

sort_by_priority(keys) ==
    LET requested(k) == k \in Range(keys) IN SelectSeq(PRIORITY, requested)

\* a slip: every block after the first uses the "final" sentence
render_middle_adaptive_NoAdd(lang, reqs) ==
    LET ordered == sort_by_priority(reqs)
        part(i) ==
            LET seg == blocks(ordered[i], lang)
                first_sentence == IF i = 1 THEN seg.lead ELSE seg.final
            IN  strip(first_sentence \o seg.rest)
    IN  join(<<NL, NL>>, [i \in 1..Len(ordered) |-> part(i)])

\* enumerate() counts from 0; the sequence positions here count from 1
render_middle_adaptive(lang, reqs) ==
    LET ordered == sort_by_priority(reqs)
        part(i) ==
            LET seg == blocks(ordered[i], lang)
                first_sentence == IF i = 1 THEN seg.lead
                                  ELSE IF i = 2 THEN seg.add
                                  ELSE seg.final
            IN  strip(first_sentence \o seg.rest)
    IN  join(<<NL, NL>>, [i \in 1..Len(ordered) |-> part(i)])

placeholder_text(lang) == <<Tok("placeholder", lang, "1")>>

\* lines 343: intro, middle and closing separated by blank lines, stripped
compose_text(lang, middle) ==
    strip(intro_texts(lang) \o <<NL, NL>> \o middle \o <<NL, NL>> \o closing_texts(lang))

-----------------------------------------------------------------------------
(* SpecCompose: two sessions of the form, each with its own language and
   request list, each pressing "Generate text" *)

MaxReqLen == 3

Sessions == { "s1", "s2" }

RECURSIVE SeqsUpTo(_, _)
SeqsUpTo(S, n) ==
    IF n = 0 THEN { <<>> }
    ELSE LET shorter == SeqsUpTo(S, n - 1)
         IN  shorter \cup { Append(q, x) : q \in shorter, x \in S }

RequestLists == SeqsUpTo(Range(PRIORITY), MaxReqLen)

InitCompose ==
    /\ language \in [Sessions -> Languages]
    /\ selected_parts \in [Sessions -> RequestLists]
    /\ middle_text = [s \in Sessions |-> <<>>]
    /\ text = [s \in Sessions |-> <<>>]
    /\ PassportIdle /\ YearsIdle

\* lines 336-345: the "Generate text" button
GenerateText(s) ==
    /\ text[s] = <<>>
    /\ IF selected_parts[s] = <<>>
       THEN /\ text' = [text EXCEPT ![s] = placeholder_text(language[s])]
            /\ UNCHANGED middle_text
       ELSE LET middle == render_middle_adaptive(language[s], selected_parts[s])
            IN  /\ middle_text' = [middle_text EXCEPT ![s] = middle]
                /\ text' = [text EXCEPT ![s] = compose_text(language[s], middle)]
    /\ UNCHANGED <<language, selected_parts>>
    /\ UNCHANGED <<passport_vars, years_vars>>

NextCompose == \E s \in Sessions : GenerateText(s)

SpecCompose == InitCompose /\ [][NextCompose]_vars

Generated(s) == text[s] # <<>>

IsSentence(tok) == Len(tok) = 3 /\ tok[3] \in {"lead", "add", "final"}

Sentences(t) == SelectSeq(t, IsSentence)

PriorityOf(r) == CHOOSE k \in 1..Len(PRIORITY) : PRIORITY[k] = r

\* C7: the composed text depends only on the language and the set of requested
\* categories: two request lists with the same categories, in any order and
\* with any duplicates, give the same middle and the same full text, and the
\* categories present always appear in the order SOF, ID, UB.
C7_SetDetermines ==
    /\ \A s, t \in Sessions :
          (/\ Generated(s) /\ Generated(t)
           /\ language[s] = language[t]
           /\ Range(selected_parts[s]) = Range(selected_parts[t]))
          => (middle_text[s] = middle_text[t] /\ text[s] = text[t])
    /\ \A s \in Sessions :
          Generated(s) =>
              LET sents == Sentences(text[s])
              IN  \A p, q \in 1..Len(sents) :
                      p < q => PriorityOf(sents[p][1]) < PriorityOf(sents[q][1])

C7_Witness ==
    /\ Generated("s1") /\ Generated("s2")
    /\ language["s1"] = language["s2"]
    /\ selected_parts["s1"] = <<"UB", "SOF">>
    /\ selected_parts["s2"] = <<"SOF", "UB", "SOF">>
    /\ text["s1"] = text["s2"]

\* the position in t of its k-th sentence token
RECURSIVE SentencePos(_, _, _)
SentencePos(t, k, from) ==
    IF IsSentence(t[from])
    THEN (IF k = 1 THEN from ELSE SentencePos(t, k - 1, from + 1))
    ELSE SentencePos(t, k, from + 1)

\* C8: in the middle text of a non-empty request the category at position 0 of
\* the priority order uses its lead sentence, the one at position 1 its add
\* sentence, any later one its final sentence, each followed by its own rest
\* text; exactly one block uses lead, at most one uses add, and there are as
\* many blocks as distinct requested categories.
C8_ConnectiveByPosition ==
    \A s \in Sessions :
        (Generated(s) /\ selected_parts[s] # <<>>) =>
            LET cats    == Range(selected_parts[s])
                mid     == middle_text[s]
                sents   == Sentences(mid)
                ordered == SelectSeq(PRIORITY, LAMBDA r : r \in cats)
                kind(i) == IF i = 1 THEN "lead" ELSE IF i = 2 THEN "add" ELSE "final"
                count(kd) == Cardinality({ i \in 1..Len(sents) : sents[i][3] = kd })
            IN  /\ Len(sents) = Cardinality(cats)
                /\ count("lead") = 1
                /\ count("add") <= 1
                /\ \A i \in 1..Len(sents) :
                      /\ sents[i] = <<ordered[i], language[s], kind(i)>>
                      /\ LET pos  == SentencePos(mid, i, 1)
                             rest == blocks(ordered[i], language[s]).rest
                         IN  /\ pos + Len(rest) <= Len(mid)
                             /\ SubSeq(mid, pos + 1, pos + Len(rest)) = rest
                             /\ (i < Len(sents) =>
                                   SubSeq(mid, pos + Len(rest) + 1, pos + Len(rest) + 2) = <<NL, NL>>)
                             /\ (i = Len(sents) => pos + Len(rest) = Len(mid))

C8_Witness ==
    /\ Generated("s1")
    /\ selected_parts["s1"] = <<"UB", "ID", "SOF">>
    /\ Len(Sentences(middle_text["s1"])) = 3
    /\ Sentences(middle_text["s1"])[3] = <<"UB", language["s1"], "final">>
=============================================================================
